---- MODULE Spec2Model ----
(***************************************************************************)
(* bun_pipe (src/bun_pipe.ts): the pipe-to-file wrapper filePipe().        *)
(*                                                                         *)
(* One invocation is a process p.  Its steps are the stretches of          *)
(* filePipe() between two awaits.  The filesystem (the files under         *)
(* /dev/shm that the invocations name) is shared by all invocations.       *)
(* Strings are sequences of one-character strings, file contents and       *)
(* streams are sequences of bytes (0..255), a decoded text is a sequence   *)
(* of Unicode code points.                                                 *)
(***************************************************************************)
EXTENDS Integers, Sequences, FiniteSets, TLC

VARIABLES
    argv,            \* process.argv.slice(2): a sequence of strings
    stdin,           \* [tty, data]: is it a terminal, the bytes not yet read
    pc,              \* where filePipe() stands
    commandTemplate, \* line 30
    hasIn,           \* line 40
    hasOut,          \* line 41
    stdinText,       \* line 56/58: the decoded text
    timestamp,       \* line 62 (0: not taken yet)
    finalCommand,    \* lines 73-81
    exitCode,        \* line 88: what result.exited resolved to
    outputContent,   \* line 99
    stdout,          \* the bytes the tool wrote to its standard output
    threw,           \* an error was thrown inside the try block
    processExit,     \* the exit code of the tool's process
    fs,              \* path -> [exists, data]
    \* history, written by the actions and read only by the properties
    stdinOrig,       \* the bytes that were piped in
    stdinRead,       \* TRUE once the tool itself has read standard input
    toolWrites,      \* the paths the tool itself wrote a file at
    spawnCount,      \* how many subprocesses the tool spawned
    subWrote,        \* [wrote, data]: what the subprocess left at outputFile
    subStdout,       \* the bytes the subprocess wrote to its own stdout
    phases           \* the phases the run went through, in order

vars == <<argv, stdin, pc, commandTemplate, hasIn, hasOut, stdinText, timestamp,
          finalCommand, exitCode, outputContent, stdout, threw, processExit, fs,
          stdinOrig, stdinRead, toolWrites, spawnCount, subWrote, subStdout, phases>>

(***************************************************************************)
(* Bounds of the model.                                                    *)
(***************************************************************************)
MaxClock == 2        \* Date.now() yields a value in 1..MaxClock
MaxStdinLen == 2     \* the piped input has at most this many bytes
MaxExitCode == 2     \* the subprocess exits with a code in 0..MaxExitCode
MaxTokens == 4       \* SpecSubst: a template is at most this many tokens

Procs == {1, 2}
Timestamps == 1..MaxClock
\* NUL, "A", a continuation byte, a two-byte lead, a byte no UTF-8 text holds
StdinBytes == {0, 65, 169, 195, 255}

(***************************************************************************)
(* Strings.                                                                *)
(***************************************************************************)
PlaceholderIn == <<"%", "i", "n">>
PlaceholderOut == <<"%", "o", "u", "t">>

\* does pat occur in s at position i
MatchAt(s, pat, i) ==
    /\ i + Len(pat) - 1 <= Len(s)
    /\ \A k \in 1..Len(pat) : s[i + k - 1] = pat[k]

\* String.prototype.includes
Includes(s, pat) == \E i \in 1..(Len(s) + 1) : MatchAt(s, pat, i)

RECURSIVE ReplaceFrom(_, _, _, _)
ReplaceFrom(s, pat, rep, i) ==
    IF i > Len(s) THEN <<>>
    ELSE IF MatchAt(s, pat, i)
         THEN rep \o ReplaceFrom(s, pat, rep, i + Len(pat))
         ELSE <<s[i]>> \o ReplaceFrom(s, pat, rep, i + 1)

\* a mutant: String.prototype.replace, which replaces the first occurrence only
RECURSIVE ReplaceFirstFrom(_, _, _, _)
ReplaceFirstFrom(s, pat, rep, i) ==
    IF i > Len(s) THEN <<>>
    ELSE IF MatchAt(s, pat, i)
         THEN rep \o SubSeq(s, i + Len(pat), Len(s))
         ELSE <<s[i]>> \o ReplaceFirstFrom(s, pat, rep, i + 1)

ReplaceFirst(s, pat, rep) == ReplaceFirstFrom(s, pat, rep, 1)

\* String.prototype.replaceAll with a string pattern: every occurrence, left to
\* right, occurrences not overlapping
ReplaceAll(s, pat, rep) == ReplaceFrom(s, pat, rep, 1)

RECURSIVE JoinFrom(_, _)
JoinFrom(args, i) ==
    IF i > Len(args) THEN <<>>
    ELSE IF i = Len(args) THEN args[i]
    ELSE args[i] \o <<" ">> \o JoinFrom(args, i + 1)

\* Array.prototype.join(' ')
JoinArgs(args) == JoinFrom(args, 1)

\* `/dev/shm/pipe-in-${timestamp}.tmp`
InputFile(ts) ==
    <<"/", "d", "e", "v", "/", "s", "h", "m", "/",
      "p", "i", "p", "e", "-", "i", "n", "-">> \o <<ToString(ts)>>
      \o <<".", "t", "m", "p">>

\* `/dev/shm/pipe-out-${timestamp}.tmp`
OutputFile(ts) ==
    <<"/", "d", "e", "v", "/", "s", "h", "m", "/",
      "p", "i", "p", "e", "-", "o", "u", "t", "-">> \o <<ToString(ts)>>
      \o <<".", "t", "m", "p">>

inputFile(p) == InputFile(timestamp[p])
outputFile(p) == OutputFile(timestamp[p])

AllPaths == {InputFile(t) : t \in Timestamps} \cup {OutputFile(t) : t \in Timestamps}

(***************************************************************************)
(* UTF-8: Response.text() decodes the bytes of standard input as UTF-8     *)
(* (replacing what is malformed by U+FFFD and dropping a leading byte      *)
(* order mark), Bun.write(path, string) encodes the string as UTF-8.       *)
(***************************************************************************)
RECURSIVE Utf8DecodeFrom(_, _, _, _, _, _, _)
Utf8DecodeFrom(bytes, i, cp, needed, seen, lower, upper) ==
    IF i > Len(bytes)
    THEN IF needed # 0 THEN <<65533>> ELSE <<>>
    ELSE LET b == bytes[i] IN
         IF needed = 0
         THEN IF b <= 127
              THEN <<b>> \o Utf8DecodeFrom(bytes, i + 1, 0, 0, 0, 128, 191)
              ELSE IF b >= 194 /\ b <= 223
              THEN Utf8DecodeFrom(bytes, i + 1, b - 192, 1, 0, 128, 191)
              ELSE IF b >= 224 /\ b <= 239
              THEN Utf8DecodeFrom(bytes, i + 1, b - 224, 2, 0,
                                  IF b = 224 THEN 160 ELSE 128,
                                  IF b = 237 THEN 159 ELSE 191)
              ELSE IF b >= 240 /\ b <= 244
              THEN Utf8DecodeFrom(bytes, i + 1, b - 240, 3, 0,
                                  IF b = 240 THEN 144 ELSE 128,
                                  IF b = 244 THEN 143 ELSE 191)
              ELSE <<65533>> \o Utf8DecodeFrom(bytes, i + 1, 0, 0, 0, 128, 191)
         ELSE IF b < lower \/ b > upper
              \* the byte is looked at again, as the first of a sequence
              THEN <<65533>> \o Utf8DecodeFrom(bytes, i, 0, 0, 0, 128, 191)
              ELSE LET cp2 == cp * 64 + (b - 128) IN
                   IF seen + 1 # needed
                   THEN Utf8DecodeFrom(bytes, i + 1, cp2, needed, seen + 1, 128, 191)
                   ELSE <<cp2>> \o Utf8DecodeFrom(bytes, i + 1, 0, 0, 0, 128, 191)

\* new Response(stream).text()
Utf8Decode(bytes) ==
    LET text == Utf8DecodeFrom(bytes, 1, 0, 0, 0, 128, 191) IN
    IF Len(text) > 0 /\ text[1] = 65279 THEN Tail(text) ELSE text

EncodeCodePoint(cp) ==
    IF cp < 128 THEN <<cp>>
    ELSE IF cp < 2048 THEN <<192 + (cp \div 64), 128 + (cp % 64)>>
    ELSE IF cp < 65536
    THEN <<224 + (cp \div 4096), 128 + ((cp \div 64) % 64), 128 + (cp % 64)>>
    ELSE <<240 + (cp \div 262144), 128 + ((cp \div 4096) % 64),
           128 + ((cp \div 64) % 64), 128 + (cp % 64)>>

RECURSIVE Utf8EncodeFrom(_, _)
Utf8EncodeFrom(text, i) ==
    IF i > Len(text) THEN <<>>
    ELSE EncodeCodePoint(text[i]) \o Utf8EncodeFrom(text, i + 1)

\* the bytes Bun.write(path, text) writes
Utf8Encode(text) == Utf8EncodeFrom(text, 1)

(***************************************************************************)
(* The filesystem and the subprocess.                                      *)
(***************************************************************************)
NoFile == [exists |-> FALSE, data |-> <<>>]
File(data) == [exists |-> TRUE, data |-> data]

StaleData == <<88>>          \* what a file left at a colliding path holds
SubData == <<79, 75>>        \* what a subprocess writes into a file
SubStdoutData == <<83>>      \* what a subprocess writes to its own stdout

\* the files found at start: at every input path, at every output path, a file
\* left behind or none
StaleFs(staleIn, staleOut) ==
    [q \in AllPaths |->
        IF \E t \in Timestamps : q = InputFile(t)
        THEN IF staleIn THEN File(StaleData) ELSE NoFile
        ELSE IF staleOut THEN File(StaleData) ELSE NoFile]

CatCmd(a, b) == <<"c", "a", "t", " ">> \o a \o <<" ", ">", " ">> \o b

\* sh -c 'cat a > b': the shell creates or truncates b, then cat copies a
CatOutcome(a, b, files) ==
    IF a # b /\ files[a].exists
    THEN [code |-> 0, fs |-> [files EXCEPT ![b] = File(files[a].data)],
          written |-> {b}, readStdin |-> FALSE, out |-> <<>>]
    ELSE [code |-> 1, fs |-> [files EXCEPT ![b] = File(<<>>)],
          written |-> {b}, readStdin |-> FALSE, out |-> <<>>]

\* the paths a command names
Mentioned(cmd) == {q \in AllPaths : Includes(cmd, q)}

FileActs(cmd) ==
    {[op |-> "none", path |-> <<>>]}
    \cup {[op |-> o, path |-> q] : o \in {"write", "remove"}, q \in Mentioned(cmd)}

ApplyFileAct(files, act) ==
    IF act.op = "write" THEN [files EXCEPT ![act.path] = File(SubData)]
    ELSE IF act.op = "remove" THEN [files EXCEPT ![act.path] = NoFile]
    ELSE files

\* what sh -c cmd may do: a command the model knows (cat a > b) does what it
\* says, any other command exits with any code, may write or remove one file
\* it names, may read the standard input it inherited, and writes to its stdout
Outcomes(cmd, files, data) ==
    LET cats == {ab \in AllPaths \X AllPaths : cmd = CatCmd(ab[1], ab[2])} IN
    IF cats # {}
    THEN {CatOutcome(ab[1], ab[2], files) : ab \in cats}
    ELSE {[code |-> c, fs |-> ApplyFileAct(files, act),
           written |-> IF act.op = "write" THEN {act.path} ELSE {},
           readStdin |-> r, out |-> SubStdoutData] :
             c \in 0..MaxExitCode, act \in FileActs(cmd),
             r \in IF data = <<>> THEN {FALSE} ELSE BOOLEAN}

(***************************************************************************)
(* The decisions of filePipe().                                            *)
(***************************************************************************)
UsageExitCode == 1       \* process.exit(1)
UncaughtExitCode == 1    \* the runtime's exit code for a rejected filePipe()

\* a mutant: the check that %in has piped input is missing
UsageErrorNoTty(tpl, tty) ==
    \/ tpl = <<>>
    \/ ~Includes(tpl, PlaceholderIn) /\ ~Includes(tpl, PlaceholderOut)

\* lines 32, 43, 49: the three usage errors
UsageError(tpl, tty) ==
    \/ tpl = <<>>
    \/ ~Includes(tpl, PlaceholderIn) /\ ~Includes(tpl, PlaceholderOut)
    \/ Includes(tpl, PlaceholderIn) /\ tty

\* a mutant: standard input is read whatever the template holds
ReadsStdinAlways(p) == TRUE

\* line 57
ReadsStdin(p) == hasIn[p]

\* line 67
WritesInput(p) == hasIn[p]

\* lines 73-81
Substitute(tpl, in, out, inPath, outPath) ==
    LET c1 == IF in THEN ReplaceAll(tpl, PlaceholderIn, inPath) ELSE tpl
    IN  IF out THEN ReplaceAll(c1, PlaceholderOut, outPath) ELSE c1

\* line 85: the subprocess's stdout
SpawnStdout == "ignore"

\* a mutant: a failed command is not noticed
CommandFailedNever(code) == FALSE

\* line 91
CommandFailed(code) == code # 0

\* a mutant: process.exit(1) whatever the command's code
FailureExitCodeOne(code) == 1

\* line 92: process.exit(exitCode)
FailureExitCode(code) == code

Set(var, p, v) == [var EXCEPT ![p] = v]
Log(p, names) == phases' = [phases EXCEPT ![p] = @ \o names]

(***************************************************************************)
(* The steps of filePipe().                                                *)
(***************************************************************************)
\* lines 30-53
ValidateArgs(p) ==
    /\ pc[p] = "start"
    /\ LET tpl == JoinArgs(argv[p]) IN
        /\ commandTemplate' = Set(commandTemplate, p, tpl)
        /\ hasIn' = Set(hasIn, p, Includes(tpl, PlaceholderIn))
        /\ hasOut' = Set(hasOut, p, Includes(tpl, PlaceholderOut))
        /\ IF UsageError(tpl, stdin[p].tty)
           THEN /\ pc' = Set(pc, p, "exited")
                /\ processExit' = Set(processExit, p, UsageExitCode)
                /\ Log(p, <<"ValidateArgs", "Exit">>)
           ELSE /\ pc' = Set(pc, p, "read")
                /\ Log(p, <<"ValidateArgs">>)
                /\ UNCHANGED processExit
    /\ UNCHANGED <<argv, stdin, stdinText, timestamp, finalCommand, exitCode,
                   outputContent, stdout, threw, fs, stdinOrig, stdinRead,
                   toolWrites, spawnCount, subWrote, subStdout>>

\* lines 55-64
ReadStdin(p) ==
    /\ pc[p] = "read"
    /\ IF ReadsStdin(p)
       THEN /\ stdinText' = Set(stdinText, p, Utf8Decode(stdin[p].data))
            /\ stdin' = Set(stdin, p, [stdin[p] EXCEPT !.data = <<>>])
            /\ stdinRead' = Set(stdinRead, p, TRUE)
            /\ Log(p, <<"ReadStdin">>)
       ELSE UNCHANGED <<stdinText, stdin, stdinRead, phases>>
    /\ \E now \in Timestamps : timestamp' = Set(timestamp, p, now)
    /\ pc' = Set(pc, p, "write")
    /\ UNCHANGED <<argv, commandTemplate, hasIn, hasOut, finalCommand, exitCode,
                   outputContent, stdout, threw, processExit, fs, stdinOrig,
                   toolWrites, spawnCount, subWrote, subStdout>>

\* lines 66-69
WriteInput(p) ==
    /\ pc[p] = "write"
    /\ IF WritesInput(p)
       THEN /\ fs' = [fs EXCEPT ![inputFile(p)] = File(Utf8Encode(stdinText[p]))]
            /\ toolWrites' = Set(toolWrites, p, toolWrites[p] \cup {inputFile(p)})
            /\ Log(p, <<"WriteInput">>)
       ELSE UNCHANGED <<fs, toolWrites, phases>>
    /\ pc' = Set(pc, p, "spawn")
    /\ UNCHANGED <<argv, stdin, commandTemplate, hasIn, hasOut, stdinText,
                   timestamp, finalCommand, exitCode, outputContent, stdout, threw,
                   processExit, stdinOrig, stdinRead, spawnCount, subWrote,
                   subStdout>>

\* lines 71-86: the command is built and handed to sh -c; Bun.spawn may throw
Spawn(p) ==
    /\ pc[p] = "spawn"
    /\ finalCommand' = Set(finalCommand, p,
           Substitute(commandTemplate[p], hasIn[p], hasOut[p],
                      inputFile(p), outputFile(p)))
    /\ \E fail \in BOOLEAN :
        IF fail
        THEN /\ threw' = Set(threw, p, TRUE)
             /\ pc' = Set(pc, p, "cleanup")
             /\ Log(p, <<"Substitute">>)
             /\ UNCHANGED spawnCount
        ELSE /\ spawnCount' = Set(spawnCount, p, spawnCount[p] + 1)
             /\ pc' = Set(pc, p, "wait")
             /\ Log(p, <<"Substitute", "Spawn">>)
             /\ UNCHANGED threw
    /\ UNCHANGED <<argv, stdin, commandTemplate, hasIn, hasOut, stdinText,
                   timestamp, exitCode, outputContent, stdout, processExit, fs,
                   stdinOrig, stdinRead, toolWrites, subWrote, subStdout>>

\* lines 84-88: sh -c finalCommand runs to its end
RunSubprocess(p) ==
    /\ pc[p] = "wait"
    /\ \E o \in Outcomes(finalCommand[p], fs, stdin[p].data) :
        /\ fs' = o.fs
        /\ exitCode' = Set(exitCode, p, o.code)
        /\ stdin' = Set(stdin, p,
               IF o.readStdin THEN [stdin[p] EXCEPT !.data = <<>>] ELSE stdin[p])
        /\ subStdout' = Set(subStdout, p, o.out)
        /\ stdout' = Set(stdout, p,
               IF SpawnStdout = "inherit" THEN stdout[p] \o o.out ELSE stdout[p])
        /\ subWrote' = Set(subWrote, p,
               IF outputFile(p) \in o.written
               THEN [wrote |-> TRUE, data |-> o.fs[outputFile(p)].data]
               ELSE [wrote |-> FALSE, data |-> <<>>])
    /\ pc' = Set(pc, p, "waited")
    /\ Log(p, <<"Wait">>)
    /\ UNCHANGED <<argv, commandTemplate, hasIn, hasOut, stdinText, timestamp,
                   finalCommand, outputContent, threw, processExit, stdinOrig,
                   stdinRead, toolWrites, spawnCount>>

\* lines 88-97: process.exit leaves at once, the finally block is not run
AfterWait(p) ==
    /\ pc[p] = "waited"
    /\ IF CommandFailed(exitCode[p])
       THEN /\ processExit' = Set(processExit, p, FailureExitCode(exitCode[p]))
            /\ pc' = Set(pc, p, "exited")
            /\ Log(p, <<"Exit">>)
       ELSE /\ pc' = Set(pc, p, IF hasOut[p] THEN "relay" ELSE "cleanup")
            /\ UNCHANGED <<processExit, phases>>
    /\ UNCHANGED <<argv, stdin, commandTemplate, hasIn, hasOut, stdinText,
                   timestamp, finalCommand, exitCode, outputContent, stdout, threw,
                   fs, stdinOrig, stdinRead, toolWrites, spawnCount, subWrote,
                   subStdout>>

\* lines 97-98
RelayExists(p) ==
    /\ pc[p] = "relay"
    /\ pc' = Set(pc, p, IF fs[outputFile(p)].exists THEN "relayRead" ELSE "cleanup")
    /\ Log(p, <<"RelayOutput">>)
    /\ UNCHANGED <<argv, stdin, commandTemplate, hasIn, hasOut, stdinText,
                   timestamp, finalCommand, exitCode, outputContent, stdout, threw,
                   processExit, fs, stdinOrig, stdinRead, toolWrites, spawnCount,
                   subWrote, subStdout>>

\* line 99: the read throws when the file is gone, or cannot be read
RelayRead(p) ==
    /\ pc[p] = "relayRead"
    /\ \E fail \in BOOLEAN :
        IF fail \/ ~fs[outputFile(p)].exists
        THEN /\ threw' = Set(threw, p, TRUE)
             /\ pc' = Set(pc, p, "cleanup")
             /\ UNCHANGED outputContent
        ELSE /\ outputContent' = Set(outputContent, p, fs[outputFile(p)].data)
             /\ pc' = Set(pc, p, "relayWrite")
             /\ UNCHANGED threw
    /\ UNCHANGED <<argv, stdin, commandTemplate, hasIn, hasOut, stdinText,
                   timestamp, finalCommand, exitCode, stdout, processExit, fs,
                   stdinOrig, stdinRead, toolWrites, spawnCount, subWrote,
                   subStdout, phases>>

\* line 100: the write throws when standard output cannot be written
RelayWrite(p) ==
    /\ pc[p] = "relayWrite"
    /\ \E fail \in BOOLEAN :
        IF fail
        THEN /\ threw' = Set(threw, p, TRUE)
             /\ UNCHANGED stdout
        ELSE /\ stdout' = Set(stdout, p, stdout[p] \o outputContent[p])
             /\ UNCHANGED threw
    /\ pc' = Set(pc, p, "cleanup")
    /\ UNCHANGED <<argv, stdin, commandTemplate, hasIn, hasOut, stdinText,
                   timestamp, finalCommand, exitCode, outputContent, processExit,
                   fs, stdinOrig, stdinRead, toolWrites, spawnCount, subWrote,
                   subStdout, phases>>

\* lines 104-110: rm -f of both paths, then the process ends: with 0 when
\* filePipe() returned, with the runtime's error code when it threw
Cleanup(p) ==
    /\ pc[p] = "cleanup"
    /\ fs' = [fs EXCEPT ![inputFile(p)] = NoFile, ![outputFile(p)] = NoFile]
    /\ processExit' = Set(processExit, p, IF threw[p] THEN UncaughtExitCode ELSE 0)
    /\ pc' = Set(pc, p, "exited")
    /\ Log(p, <<"Cleanup", "Exit">>)
    /\ UNCHANGED <<argv, stdin, commandTemplate, hasIn, hasOut, stdinText,
                   timestamp, finalCommand, exitCode, outputContent, stdout, threw,
                   stdinOrig, stdinRead, toolWrites, spawnCount, subWrote,
                   subStdout>>

(***************************************************************************)
(* The inputs and the specifications.                                      *)
(***************************************************************************)
BytesUpTo(n) == UNION {[1..k -> StdinBytes] : k \in 0..n}

CatTemplate == <<"c", "a", "t", " ", "%", "i", "n", " ", ">", " ", "%", "o", "u", "t">>

\* no argument; ls; cat %in > %out (as four arguments); 'f %out'; wc %in
ArgvSet ==
    { <<>>,
      << <<"l", "s">> >>,
      << <<"c", "a", "t">>, PlaceholderIn, <<">">>, PlaceholderOut >>,
      << <<"f", " ", "%", "o", "u", "t">> >>,
      << <<"w", "c">>, PlaceholderIn >> }

\* the pieces the templates of SpecSubst are made of
Tokens == { PlaceholderIn, PlaceholderOut, <<"%">>, <<"i", "n">>, <<"o", "u", "t">>, <<" ">> }

RECURSIVE Concat(_, _)
Concat(parts, i) == IF i > Len(parts) THEN <<>> ELSE parts[i] \o Concat(parts, i + 1)

TokenTemplates == {Concat(ts, 1) : ts \in UNION {[1..k -> Tokens] : k \in 0..MaxTokens}}

\* the state filePipe() starts in, for the arguments, the standard input and
\* the files given
Start(av, sin, files) ==
    /\ argv = av
    /\ stdin = sin
    /\ fs = files
    /\ stdinOrig = [p \in Procs |-> sin[p].data]
    /\ pc = [p \in Procs |-> "start"]
    /\ commandTemplate = [p \in Procs |-> <<>>]
    /\ hasIn = [p \in Procs |-> FALSE]
    /\ hasOut = [p \in Procs |-> FALSE]
    /\ stdinText = [p \in Procs |-> <<>>]
    /\ timestamp = [p \in Procs |-> 0]
    /\ finalCommand = [p \in Procs |-> <<>>]
    /\ exitCode = [p \in Procs |-> 0]
    /\ outputContent = [p \in Procs |-> <<>>]
    /\ stdout = [p \in Procs |-> <<>>]
    /\ threw = [p \in Procs |-> FALSE]
    /\ processExit = [p \in Procs |-> 0]
    /\ stdinRead = [p \in Procs |-> FALSE]
    /\ toolWrites = [p \in Procs |-> {}]
    /\ spawnCount = [p \in Procs |-> 0]
    /\ subWrote = [p \in Procs |-> [wrote |-> FALSE, data |-> <<>>]]
    /\ subStdout = [p \in Procs |-> <<>>]
    /\ phases = [p \in Procs |-> <<>>]

NoInput == [tty |-> TRUE, data |-> <<>>]

\* one invocation (process 1; process 2 is never started)
Init ==
    \E a \in ArgvSet, d \in BytesUpTo(MaxStdinLen), tty \in BOOLEAN,
       staleIn \in BOOLEAN, staleOut \in BOOLEAN :
        Start([p \in Procs |-> IF p = 1 THEN a ELSE <<>>],
              [p \in Procs |-> IF p = 1 THEN [tty |-> tty, data |-> d] ELSE NoInput],
              StaleFs(staleIn, staleOut))

Step(p) ==
    \/ ValidateArgs(p)
    \/ ReadStdin(p)
    \/ WriteInput(p)
    \/ Spawn(p)
    \/ RunSubprocess(p)
    \/ AfterWait(p)
    \/ RelayExists(p)
    \/ RelayRead(p)
    \/ RelayWrite(p)
    \/ Cleanup(p)

Next == \E p \in {1} : Step(p)

Spec == Init /\ [][Next]_vars

\* two invocations at once, each with piped input and a template that names
\* its output file
InitConc ==
    \E a1 \in ArgvSet, a2 \in ArgvSet :
        /\ Includes(JoinArgs(a1), PlaceholderOut)
        /\ Includes(JoinArgs(a2), PlaceholderOut)
        /\ Start([p \in Procs |-> IF p = 1 THEN a1 ELSE a2],
                 [p \in Procs |-> [tty |-> FALSE, data |-> <<65>>]],
                 StaleFs(FALSE, FALSE))

NextConc == \E p \in Procs : Step(p)

SpecConc == InitConc /\ [][NextConc]_vars

\* the command is built for every template made of at most MaxTokens tokens
InitSubst ==
    \E t \in TokenTemplates :
        Start([p \in Procs |-> IF p = 1 THEN <<t>> ELSE <<>>],
              [p \in Procs |-> IF p = 1 THEN [tty |-> FALSE, data |-> <<65>>] ELSE NoInput],
              StaleFs(FALSE, FALSE))

NextSubst ==
    \E p \in {1} :
        \/ ValidateArgs(p)
        \/ ReadStdin(p)
        \/ WriteInput(p)
        \/ Spawn(p)

SpecSubst == InitSubst /\ [][NextSubst]_vars

(***************************************************************************)
(* The properties.                                                         *)
(***************************************************************************)
Template(p) == JoinArgs(argv[p])
Went(p, phase) == \E i \in DOMAIN phases[p] : phases[p][i] = phase
Count(s, pat) == Cardinality({i \in 1..Len(s) : MatchAt(s, pat, i)})

\* the invocation is one of the three usage errors
IsUsageError(p) ==
    \/ Template(p) = <<>>
    \/ ~Includes(Template(p), PlaceholderIn) /\ ~Includes(Template(p), PlaceholderOut)
    \/ Includes(Template(p), PlaceholderIn) /\ stdin[p].tty

\* C1 (as claimed): once the tool has exited after it took its file names, no
\* file that the tool or its subprocess created at the input or the output path
\* of the invocation is left.
C1_CleanupOnEveryExit ==
    \A p \in Procs :
        (pc[p] = "exited" /\ timestamp[p] # 0) =>
            /\ (inputFile(p) \in toolWrites[p] => ~fs[inputFile(p)].exists)
            /\ (subWrote[p].wrote => ~fs[outputFile(p)].exists)

\* C2 (as claimed): a tool that spawned its subprocess exits with the
\* subprocess's exit code.
C2_ExitCodeEqualsSubprocess ==
    \A p \in Procs :
        (pc[p] = "exited" /\ spawnCount[p] > 0) => processExit[p] = exitCode[p]

\* C2 (amended): a tool that spawned its subprocess exits with the subprocess's
\* code N when N # 0, with 0 when the subprocess exited with 0 and nothing threw
\* while the output was relayed, and with the runtime's error code 1 when the
\* subprocess exited with 0 and the relay threw.
C2_ExitCodePropagated ==
    \A p \in Procs :
        (pc[p] = "exited" /\ spawnCount[p] > 0) =>
            /\ (exitCode[p] # 0 => processExit[p] = exitCode[p])
            /\ (exitCode[p] = 0 /\ ~threw[p] => processExit[p] = 0)
            /\ (exitCode[p] = 0 /\ threw[p] => processExit[p] = 1)

\* C2: a subprocess exited with a code above 1 and the tool exited with it.
C2_Witness ==
    \E p \in Procs :
        /\ pc[p] = "exited" /\ spawnCount[p] > 0
        /\ exitCode[p] > 1 /\ processExit[p] = exitCode[p]

\* C3: once the subprocess has exited with a non-zero code, the tool's standard
\* output is empty, and stays empty.
C3_NoOutputOnFailure ==
    \A p \in Procs : exitCode[p] # 0 => stdout[p] = <<>>

\* C3: a command failed with %out in the template and a file at the output path.
C3_Witness ==
    \E p \in Procs :
        /\ pc[p] = "exited" /\ exitCode[p] # 0 /\ hasOut[p]
        /\ fs[outputFile(p)].exists

\* C4: an invocation that is a usage error does nothing but exit with code 1:
\* it reads no standard input, writes no file, spawns no subprocess.
C4_UsageErrorExitsFirst ==
    \A p \in Procs :
        IsUsageError(p) =>
            /\ pc[p] \in {"start", "exited"}
            /\ pc[p] = "exited" => processExit[p] = 1
            /\ ~stdinRead[p] /\ stdin[p].data = stdinOrig[p]
            /\ toolWrites[p] = {}
            /\ spawnCount[p] = 0
            /\ ~Went(p, "ReadStdin") /\ ~Went(p, "WriteInput") /\ ~Went(p, "Spawn")

\* C4: %in with a terminal as standard input (and input typed): exit 1.
C4_Witness ==
    \E p \in Procs :
        /\ pc[p] = "exited" /\ processExit[p] = 1
        /\ Includes(Template(p), PlaceholderIn) /\ stdin[p].tty
        /\ stdinOrig[p] # <<>>

\* C5 (as claimed): with the template cat %in > %out, a tool that exits with 0
\* has written to standard output exactly the bytes that were piped in.
C5_RoundTrip ==
    \A p \in Procs :
        (Template(p) = CatTemplate /\ pc[p] = "exited" /\ processExit[p] = 0) =>
            stdout[p] = stdinOrig[p]

\* C6 (as claimed): with %out in the template, a subprocess that exited with 0
\* and a relay that did not throw, the tool exits with 0 and its standard
\* output is what the subprocess wrote at the output path, and is empty when
\* the subprocess created no file there.
C6_RelaysWhatSubprocessWrote ==
    \A p \in Procs :
        (pc[p] = "exited" /\ hasOut[p] /\ spawnCount[p] > 0 /\ exitCode[p] = 0
            /\ ~threw[p]) =>
            /\ processExit[p] = 0
            /\ stdout[p] = IF subWrote[p].wrote THEN subWrote[p].data ELSE <<>>

\* the command with every occurrence of a path put back to its placeholder
RECURSIVE Restore(_, _, _, _)
Restore(s, path, token, i) ==
    IF i > Len(s) THEN <<>>
    ELSE IF MatchAt(s, path, i)
         THEN token \o Restore(s, path, token, i + Len(path))
         ELSE <<s[i]>> \o Restore(s, path, token, i + 1)

\* C7: in the command handed to the shell no %in and no %out is left, there are
\* as many input paths as the template has %in and as many output paths as it
\* has %out, and putting the placeholders back gives the template.
C7_SubstitutionIsGlobal ==
    \A p \in Procs :
        Went(p, "Substitute") =>
            /\ ~Includes(finalCommand[p], PlaceholderIn)
            /\ ~Includes(finalCommand[p], PlaceholderOut)
            /\ Count(finalCommand[p], inputFile(p)) = Count(Template(p), PlaceholderIn)
            /\ Count(finalCommand[p], outputFile(p)) = Count(Template(p), PlaceholderOut)
            /\ Restore(Restore(finalCommand[p], inputFile(p), PlaceholderIn, 1),
                       outputFile(p), PlaceholderOut, 1) = Template(p)

\* C7: a template with %in twice and %out was substituted and spawned.
C7_Witness ==
    \E p \in Procs :
        /\ Went(p, "Spawn")
        /\ Count(Template(p), PlaceholderIn) >= 2
        /\ Count(Template(p), PlaceholderOut) >= 1
        /\ Count(finalCommand[p], inputFile(p)) >= 2

\* C8 (as claimed): two invocations that both hold their file names and have
\* not exited use different input paths and different output paths.
C8_PathsUniquePerInvocation ==
    \A p \in Procs, q \in Procs :
        (p # q /\ timestamp[p] # 0 /\ timestamp[q] # 0
            /\ pc[p] # "exited" /\ pc[q] # "exited") =>
            /\ inputFile(p) # inputFile(q)
            /\ outputFile(p) # outputFile(q)

\* C9: with %out and without %in in the template, the tool never reads
\* standard input and never writes a file, and standard input is whole when the
\* subprocess starts.
C9_StdinOnlyForIn ==
    \A p \in Procs :
        (Includes(Template(p), PlaceholderOut) /\ ~Includes(Template(p), PlaceholderIn)) =>
            /\ ~stdinRead[p]
            /\ toolWrites[p] = {}
            /\ ~Went(p, "ReadStdin") /\ ~Went(p, "WriteInput")
            /\ pc[p] \in {"start", "read", "write", "spawn", "wait"} =>
                   stdin[p].data = stdinOrig[p]

\* C9: a subprocess of a template with %out only starts with the piped input unread.
C9_Witness ==
    \E p \in Procs :
        /\ Includes(Template(p), PlaceholderOut) /\ ~Includes(Template(p), PlaceholderIn)
        /\ pc[p] = "wait" /\ ~stdin[p].tty
        /\ stdinOrig[p] # <<>> /\ stdin[p].data = stdinOrig[p]

PhaseOrder ==
    <<"ValidateArgs", "ReadStdin", "WriteInput", "Substitute", "Spawn", "Wait",
      "RelayOutput", "Cleanup", "Exit">>

PhaseIndex(name) == CHOOSE i \in DOMAIN PhaseOrder : PhaseOrder[i] = name

\* C10 (as claimed): the phases of a run come in the order of PhaseOrder, each
\* at most once; the subprocess is spawned at most once, after standard input
\* was read and written; and a run that got past validation cleans up before
\* it exits.
C10_LinearPhases ==
    \A p \in Procs :
        /\ \A i \in DOMAIN phases[p], j \in DOMAIN phases[p] :
               i < j => PhaseIndex(phases[p][i]) < PhaseIndex(phases[p][j])
        /\ spawnCount[p] <= 1
        /\ (Went(p, "Spawn") /\ hasIn[p]) => (Went(p, "ReadStdin") /\ Went(p, "WriteInput"))
        /\ Went(p, "RelayOutput") => Went(p, "Wait")
        /\ (pc[p] = "exited" /\ ~IsUsageError(p)) => Went(p, "Cleanup")

====
